---- MODULE Spec2Model ----
(***************************************************************************)
(* The live call audio session controller of phone-calling-agent:          *)
(* CallService (src/services/call_service.py) driven by the stream         *)
(* endpoint (src/api/routes/voice.py) and the telephony webhooks           *)
(* (src/api/routes/webhooks.py).                                           *)
(*                                                                         *)
(* Time is counted in half seconds: one tick of `now` is 0.5 s, so         *)
(* len/8000 seconds of line audio is (2*len) \div 8000 ticks.              *)
(* Audio is modelled by its length in bytes; a frame also carries the      *)
(* number of its bytes that lie in the silence band 120..136.              *)
(***************************************************************************)
EXTENDS Integers, Sequences, FiniteSets, TLC

\* ---------------------------------------------------------------- bounds
MaxTime == 3
MaxTurns == 2
MaxSessions == 3
MaxBuffer == 100000

\* ------------------------------------------------------ program constants
MinBufferBytes == 8000
MaxBufferBytes == 48000
SilentChunksThreshold == 15
MinSilenceLen == 100
LineRate == 8000
MULAW_BIAS == 132
MULAW_CLIP == 32635

NoSession == 0

CallSids == {"CA1", "CA2"}
\* The call of the specifications that follow one call.
OneCall == {"CA1"}
Conns == {"w1", "w2"}
Tasks == {"t1"}
Services == {"voice", "webhook"}
SessIds == 1..MaxSessions

\* Frames of the concurrency specification: [len, quiet] with quiet the number
\* of bytes in the silence band.
CoarseFrames == {[len |-> 30000, quiet |-> 0]}
\* Frames of the endpointing specification.
FineFrames ==
    { [len |-> 4800, quiet |-> 0],
      [len |-> 160, quiet |-> 0],
      [len |-> 160, quiet |-> 128],
      [len |-> 160, quiet |-> 129],
      [len |-> 160, quiet |-> 160] }
\* Lengths of synthesized line audio (0: the synthesizer returned no audio).
ReplyLens == {0, 4000}
StreamSids == {"MZ1"}

VARIABLES
    now,            \* datetime.utcnow(), in half seconds
    sessions,       \* CallService._sessions of each CallService instance
    sess,           \* the CallSession objects, by identity
    nalloc,         \* number of CallSession objects constructed so far
    call_log,       \* the CallLog row of each call_sid
    pc,             \* where each websocket_stream coroutine is suspended
    conn_sid,       \* websocket_stream's call_sid
    conn_session,   \* websocket_stream's local `session`
    stream_sid,     \* websocket_stream's local stream_sid
    greeting_sent,  \* websocket_stream's local greeting_sent
    local,          \* locals of the calls a websocket_stream coroutine is inside
    task,           \* the webhook requests and direct start_call invocations
    timers,         \* the _delayed_hangup tasks created and not yet finished
    calls,          \* how often each collaborator has been called
    sent,           \* outbound media frames sent on each connection
    hangups,        \* twilio.end_call invocations per call_sid
    scenB,          \* progress of the "0.6 s of speech, 15 silent frames" run
    last,           \* the step taken last and its outcome
    codec           \* a byte on its way through AudioProcessor's line codec

vars == << now, sessions, sess, nalloc, call_log, pc, conn_sid, conn_session,
           stream_sid, greeting_sent, local, task, timers, calls, sent,
           hangups, scenB, last, codec >>

\* ------------------------------------------------------------ CallSession
NewSession(sid) ==
    [ call_sid |-> sid,
      messages |-> 0,
      transcription_buffer |-> << >>,
      audio_buffer |-> 0,
      is_active |-> TRUE,
      is_processing |-> FALSE,
      speaking_until |-> << >>,
      silent_chunks |-> 0 ]

\* A CallSession object that has not been constructed yet.
Unborn == [NewSession("") EXCEPT !.is_active = FALSE]

Allocated == 1..nalloc

\* CallService.get_session
GetSession(svc, sid) == sessions[svc][sid]

\* ------------------------------------------------------------- start_call
\* start_call up to its first suspension: the registry part.
StartCallFresh(svc, sid) ==
    [ ret |-> nalloc + 1,
      created |-> TRUE,
      registry |-> [sessions EXCEPT ![svc][sid] = nalloc + 1],
      heap |-> [i \in SessIds |-> IF i = nalloc + 1 THEN NewSession(sid) ELSE sess[i]] ]

\* Mutant: the "already registered" test is missing.
StartCallAlways(svc, sid) == StartCallFresh(svc, sid)

StartCall(svc, sid) ==
    IF sessions[svc][sid] # NoSession
    THEN [ ret |-> sessions[svc][sid], created |-> FALSE,
           registry |-> sessions, heap |-> sess ]
    ELSE StartCallFresh(svc, sid)

\* start_call's transaction: the CallLog row is inserted unless it exists.
StartCallDb(sid) ==
    IF call_log[sid].exists
    THEN call_log
    ELSE [call_log EXCEPT ![sid] =
            [exists |-> TRUE, status |-> "initiated", transcription |-> << >>,
             ended |-> FALSE]]

\* --------------------------------------------------------------- end_call
\* Mutant: the transcript is not written.
EndCallDbNoTranscript(s, sid) ==
    IF call_log[sid].exists
    THEN [call_log EXCEPT ![sid].status = "completed", ![sid].ended = TRUE]
    ELSE call_log

\* end_call's transaction: status, end time and transcript of the row.
EndCallDb(s, sid) ==
    IF call_log[sid].exists
    THEN [call_log EXCEPT ![sid] =
            [exists |-> TRUE, status |-> "completed",
             transcription |-> sess[s].transcription_buffer, ended |-> TRUE]]
    ELSE call_log

\* update_call_status's transaction.
UpdateCallStatus(sid, status) ==
    IF call_log[sid].exists
    THEN [call_log EXCEPT ![sid].status = status]
    ELSE call_log

\* ------------------------------------------------------------- the frames
DetectSilence(f) ==
    IF f.len < MinSilenceLen THEN FALSE ELSE f.quiet * 10 > f.len * 8

\* Mutant: the window is taken to end half a second early.
SuppressedTooShort(s) == s.speaking_until # << >> /\ now + 1 < s.speaking_until[1]

\* handle_websocket_message, "media": the echo-suppression test.
Suppressed(s) == s.speaking_until # << >> /\ now < s.speaking_until[1]

\* Mutant: the expired window is cleared, the buffered audio is kept.
ListenKeeps(s) == [s EXCEPT !.speaking_until = << >>]

\* The window has expired: a fresh listening window.
Listen(s) ==
    IF s.speaking_until # << >>
    THEN [s EXCEPT !.speaking_until = << >>, !.audio_buffer = 0, !.silent_chunks = 0]
    ELSE s

AppendFrame(s, f) ==
    [s EXCEPT !.audio_buffer = @ + f.len,
              !.silent_chunks = IF DetectSilence(f) THEN @ + 1 ELSE 0]

\* Mutant: the minimum is compared strictly.
ShouldProcessStrict(s) ==
    /\ s.audio_buffer > MinBufferBytes
    /\ (s.silent_chunks >= SilentChunksThreshold \/ s.audio_buffer > MaxBufferBytes)

ShouldProcess(s) ==
    /\ s.audio_buffer >= MinBufferBytes
    /\ (s.silent_chunks >= SilentChunksThreshold \/ s.audio_buffer > MaxBufferBytes)

\* process_audio_chunk(is_final=True) up to "session.is_processing = True".
CanProcess(s) == s.is_active /\ ~s.is_processing

\* Mutant: "session.is_processing = True" is missing.
AcquireNothing(s) == s

AcquireProcessing(s) == [s EXCEPT !.is_processing = TRUE]

\* Mutant: "session.is_processing = False" is missing.
ReleaseNothing(s) == s

ReleaseProcessing(s) == [s EXCEPT !.is_processing = FALSE]

\* Durations in half seconds.
SpeakingDuration(len) == (2 * len) \div LineRate + 1
\* Mutant: the greeting gets the half second a reply gets.
GreetingDurationShort(len) == (2 * len) \div LineRate + 1

GreetingDuration(len) == (2 * len) \div LineRate + 2
\* Mutant: the hangup waits half a second after the farewell, not a second.
HangupDelayShort(len) == (2 * len) \div LineRate + 1

HangupDelay(len) == (2 * len) \div LineRate + 2

\* Mutant: the window is not opened before the reply is handed over.
SpeakNot(s, len) == s

\* handle_websocket_message, with reply audio in hand: the suppression window.
Speak(s, len) == [s EXCEPT !.speaking_until = << now + SpeakingDuration(len) >>]

InFlight == {"stt", "llm", "tts"}

\* The outcome of the last handler step: sid is the stream identifier of the
\* frame it sent and arg the input it was given, where these are looked at.
Ev(op, who, s, res, out) ==
    [op |-> op, who |-> who, sess |-> s, res |-> res, out |-> out,
     sid |-> "None", arg |-> "None"]

\* Mutant: the reply keeps the identifier of the inbound frame.
ReframeNever(captured, msid) == msid

\* websocket_stream: "if stream_sid and response.get("streamSid") != stream_sid".
Reframe(captured, msid) ==
    IF captured # "None" /\ msid # captured THEN captured ELSE msid

\* A step none of whose outcomes is looked at.
Other == Ev("other", "none", NoSession, "none", FALSE)

NoLocal == [session |-> NoSession, action |-> "none", ending |-> NoSession]

\* The "0.6 s of speech, then silent frames" run, as far as it has been fed.
ScenOff == [phase |-> "off", loud |-> 0, quiet |-> 0]

ScenFeed(f) ==
    IF DetectSilence(f)
    THEN IF scenB.phase \in {"loud", "quiet"} /\ scenB.quiet < 15
         THEN [scenB EXCEPT !.phase = "quiet", !.quiet = @ + 1]
         ELSE ScenOff
    ELSE IF scenB.phase \in {"fresh", "loud"} /\ scenB.loud + f.len <= 4800
         THEN [scenB EXCEPT !.phase = "loud", !.loud = @ + f.len]
         ELSE ScenOff

\* ------------------------------------------------------------ line codec
\* byte & mask for a mask of one bit.
Bit(x, mask) == (x \div mask) % 2

\* numpy's conversion to dtype int16.
ToInt16(x) == ((x + 32768) % 65536) - 32768

\* Mutant: the bias is not taken off the decoded sample.
mulaw_to_pcm16_biased(byte) ==
    LET inv == 255 - byte
        sign == inv \div 128
        exponent == (inv \div 16) % 8
        mantissa == inv % 16
        sample == (mantissa * 8 + MULAW_BIAS) * (2 ^ exponent)
    IN ToInt16(IF sign = 1 THEN -sample ELSE sample)

\* AudioProcessor.mulaw_to_pcm16, for one byte: ~byte has the low eight bits
\* of 255 - byte.
mulaw_to_pcm16(byte) ==
    LET inv == 255 - byte
        sign == inv \div 128
        exponent == (inv \div 16) % 8
        mantissa == inv % 16
        sample == (mantissa * 8 + MULAW_BIAS) * (2 ^ exponent) - MULAW_BIAS
    IN ToInt16(IF sign = 1 THEN -sample ELSE sample)

\* pcm16_to_mulaw's loop "while exponent > 0 and (sample & exp_mask) == 0".
RECURSIVE FindExponent(_, _, _)
FindExponent(sample, exponent, exp_mask) ==
    IF exponent > 0 /\ Bit(sample, exp_mask) = 0
    THEN FindExponent(sample, exponent - 1, exp_mask \div 2)
    ELSE exponent

Min(a, b) == IF a < b THEN a ELSE b

\* Mutant: the bias is not added before the exponent is sought.
pcm16_to_mulaw_unbiased(pcm) ==
    LET sign == IF pcm < 0 THEN 128 ELSE 0
        sample == Min(IF pcm < 0 THEN -pcm ELSE pcm, MULAW_CLIP)
        exponent == FindExponent(sample, 7, 16384)
        mantissa == (sample \div (2 ^ (exponent + 3))) % 16
    IN 255 - (sign + exponent * 16 + mantissa)

\* AudioProcessor.pcm16_to_mulaw, for one sample.
pcm16_to_mulaw(pcm) ==
    LET sign == IF pcm < 0 THEN 128 ELSE 0
        sample == Min(IF pcm < 0 THEN -pcm ELSE pcm, MULAW_CLIP) + MULAW_BIAS
        exponent == FindExponent(sample, 7, 16384)
        mantissa == (sample \div (2 ^ (exponent + 3))) % 16
    IN 255 - (sign + exponent * 16 + mantissa)

Bytes == 0..255
Samples == -32768..32767

\* No byte is in the codec.
NoCodec == [phase |-> "none", byte |-> 0, pcm |-> 0, out |-> 0, back |-> 0]

\* ------------------------------------------------------------------- Init
Init ==
    /\ codec = NoCodec
    /\ now = 0
    /\ sessions = [svc \in Services |-> [sid \in CallSids |-> NoSession]]
    /\ sess = [i \in SessIds |-> Unborn]
    /\ nalloc = 0
    /\ call_log = [sid \in CallSids |->
                     [exists |-> FALSE, status |-> "none",
                      transcription |-> << >>, ended |-> FALSE]]
    /\ pc = [k \in Conns |-> "idle"]
    /\ conn_sid = [k \in Conns |-> "none"]
    /\ conn_session = [k \in Conns |-> NoSession]
    /\ stream_sid = [k \in Conns |-> "None"]
    /\ greeting_sent = [k \in Conns |-> FALSE]
    /\ local = [k \in Conns |-> NoLocal]
    /\ task = [t \in Tasks |-> [pc |-> "idle", sid |-> "none", session |-> NoSession]]
    /\ timers = {}
    /\ calls = [stt |-> 0, llm |-> 0, tts |-> 0, greeting |-> 0]
    /\ sent = [k \in Conns |-> 0]
    /\ hangups = [sid \in CallSids |-> 0]
    /\ scenB = [phase |-> "fresh", loud |-> 0, quiet |-> 0]
    /\ last = Other

\* ------------------------------------------------- websocket_stream: open
\* accept, get_session and, without a session, start_call's registry part.
Connect(k, sid) ==
    /\ pc[k] = "idle"
    /\ LET r == IF GetSession("voice", sid) # NoSession
                THEN [ ret |-> GetSession("voice", sid), created |-> FALSE,
                       registry |-> sessions, heap |-> sess ]
                ELSE StartCall("voice", sid)
       IN /\ r.created => nalloc < MaxSessions
          /\ sessions' = r.registry
          /\ sess' = r.heap
          /\ nalloc' = IF r.created THEN r.ret ELSE nalloc
          /\ conn_sid' = [conn_sid EXCEPT ![k] = sid]
          /\ conn_session' = [conn_session EXCEPT ![k] = r.ret]
          /\ pc' = [pc EXCEPT ![k] = IF r.created THEN "start_db" ELSE "recv"]
          /\ last' = Other
    /\ UNCHANGED << codec, now, call_log, stream_sid, greeting_sent, local, task,
                    timers, calls, sent, hangups, scenB >>

\* start_call's transaction completes and start_call returns.
ConnectDb(k) ==
    /\ pc[k] = "start_db"
    /\ call_log' = StartCallDb(conn_sid[k])
    /\ pc' = [pc EXCEPT ![k] = "recv"]
    /\ last' = Other
    /\ UNCHANGED << codec, now, sessions, sess, nalloc, conn_sid, conn_session,
                    stream_sid, greeting_sent, local, task, timers, calls,
                    sent, hangups, scenB >>

\* ------------------------------------------------ the "start" event
\* The stream's start event: the streamSid is captured and, the first time,
\* the greeting is requested (get_greeting_audio is awaited).
StartEvent(k, ssid) ==
    /\ pc[k] = "recv"
    /\ stream_sid' = [stream_sid EXCEPT ![k] = ssid]
    /\ IF ~greeting_sent[k] /\ ssid # "None"
       THEN /\ calls.greeting < MaxTurns
            /\ pc' = [pc EXCEPT ![k] = "greeting"]
            /\ calls' = [calls EXCEPT !.greeting = @ + 1]
       ELSE UNCHANGED << pc, calls >>
    /\ last' = Other
    /\ UNCHANGED << codec, now, sessions, sess, nalloc, call_log, conn_sid,
                    conn_session, greeting_sent, local, task, timers, sent,
                    hangups, scenB >>

\* get_greeting_audio returns len bytes of line audio.
GreetingReturn(k, len) ==
    /\ pc[k] = "greeting"
    /\ IF len > 0
       THEN /\ sess' = [sess EXCEPT ![conn_session[k]].speaking_until =
                          << now + GreetingDuration(len) >>]
            /\ sent' = [sent EXCEPT ![k] = @ + 1]
            /\ greeting_sent' = [greeting_sent EXCEPT ![k] = TRUE]
       ELSE UNCHANGED << sess, sent, greeting_sent >>
    /\ pc' = [pc EXCEPT ![k] = "recv"]
    /\ scenB' = ScenOff
    /\ last' = [Ev("greeting", k, conn_session[k], "none", len > 0)
                   EXCEPT !.sid = IF len > 0 THEN stream_sid[k] ELSE "None"]
    /\ UNCHANGED << codec, now, sessions, nalloc, call_log, conn_sid, conn_session,
                    stream_sid, local, task, timers, calls, hangups >>

\* ------------------------------------------------ the "media" event
\* handle_websocket_message for a media frame with a decodable, non-empty
\* payload, up to the first suspension of process_audio_chunk.
HandleMedia(k, f) ==
    /\ pc[k] = "recv"
    /\ LET sid == conn_sid[k]
           s == GetSession("voice", sid)
       IN IF s = NoSession
          THEN /\ last' = Ev("media", k, s, "no_session", FALSE)
               /\ UNCHANGED << sess, pc, local, calls >>
          ELSE IF sess[s].is_processing
          THEN /\ last' = Ev("media", k, s, "busy", FALSE)
               /\ UNCHANGED << sess, pc, local, calls >>
          ELSE IF Suppressed(sess[s])
          THEN /\ last' = Ev("media", k, s, "suppressed", FALSE)
               /\ UNCHANGED << sess, pc, local, calls >>
          ELSE LET heard == AppendFrame(Listen(sess[s]), f)
               IN /\ heard.audio_buffer <= MaxBuffer
                  /\ IF ShouldProcess(heard)
                     THEN IF CanProcess(heard)
                          THEN /\ calls.stt < MaxTurns
                               /\ sess' = [sess EXCEPT ![s] = AcquireProcessing(heard)]
                               /\ pc' = [pc EXCEPT ![k] = "stt"]
                               /\ local' = [local EXCEPT ![k].session = s]
                               /\ calls' = [calls EXCEPT !.stt = @ + 1]
                               /\ last' = Ev("media", k, s, "started", FALSE)
                          ELSE /\ sess' = [sess EXCEPT ![s] =
                                             [heard EXCEPT !.silent_chunks = 0]]
                               /\ last' = Ev("media", k, s, "refused", FALSE)
                               /\ UNCHANGED << pc, local, calls >>
                     ELSE /\ sess' = [sess EXCEPT ![s] = heard]
                          /\ last' = Ev("media", k, s, "buffered", FALSE)
                          /\ UNCHANGED << pc, local, calls >>
    /\ scenB' = IF last'.res \in {"buffered", "started"} THEN ScenFeed(f) ELSE ScenOff
    /\ UNCHANGED << codec, now, sessions, nalloc, call_log, conn_sid, conn_session,
                    stream_sid, greeting_sent, task, timers, sent, hangups >>

\* ------------------------------------------------ process_audio_chunk
\* What handle_websocket_message does once process_audio_chunk has returned
\* without audio: "session.silent_chunks = 0".
NoReply(s) == [ReleaseProcessing(s) EXCEPT !.silent_chunks = 0]

\* Mutant: no transcription counts as empty.
IsBlankNever(text) == FALSE

\* process_audio_chunk: "not transcription or not transcription.strip()".
IsBlank(text) == text = ""

\* transcribe_async returns text ("" stands for whitespace-only text).
SttReturn(k, text) ==
    /\ pc[k] = "stt"
    /\ LET s == local[k].session
           cleared == [sess[s] EXCEPT !.audio_buffer = 0]
       IN IF IsBlank(text)
          THEN /\ sess' = [sess EXCEPT ![s] = NoReply(cleared)]
               /\ pc' = [pc EXCEPT ![k] = "recv"]
               /\ local' = [local EXCEPT ![k] = NoLocal]
               /\ scenB' = ScenOff
               /\ last' = [Ev("stt", k, s, "empty", FALSE) EXCEPT !.arg = text]
               /\ UNCHANGED calls
          ELSE /\ sess' = [sess EXCEPT ![s] =
                             [cleared EXCEPT !.transcription_buffer = Append(@, "User")]]
               /\ pc' = [pc EXCEPT ![k] = "llm"]
               /\ calls' = [calls EXCEPT !.llm = @ + 1]
               /\ last' = [Ev("stt", k, s, "text", FALSE) EXCEPT !.arg = text]
               /\ UNCHANGED << local, scenB >>
    /\ UNCHANGED << codec, now, sessions, nalloc, call_log, conn_sid, conn_session,
                    stream_sid, greeting_sent, task, timers, sent, hangups >>

\* agent.process_message returns the reply text, the history and an action.
LlmReturn(k, action) ==
    /\ pc[k] = "llm"
    /\ LET s == local[k].session
       IN sess' = [sess EXCEPT ![s].messages = @ + 2,
                               ![s].transcription_buffer = Append(@, "Agent")]
    /\ local' = [local EXCEPT ![k].action = action]
    /\ pc' = [pc EXCEPT ![k] = "tts"]
    /\ calls' = [calls EXCEPT !.tts = @ + 1]
    /\ scenB' = IF action = "continue" THEN scenB ELSE ScenOff
    /\ last' = Ev("llm", k, local[k].session, action, FALSE)
    /\ UNCHANGED << codec, now, sessions, nalloc, call_log, conn_sid, conn_session,
                    stream_sid, greeting_sent, task, timers, sent, hangups >>

\* The _delayed_hangup task process_audio_chunk creates for action "end".
NewTimer(sid, s, len) ==
    [ sid |-> sid, due |-> now + HangupDelay(len), sess |-> s,
      n |-> calls.tts, pc |-> "sleep", victim |-> NoSession,
      at |-> now, len |-> len ]

\* synthesize_async returns; len bytes of line audio come out of the codec,
\* process_audio_chunk returns them, handle_websocket_message sets the
\* suppression window and websocket_stream sends the frame. msid is the
\* streamSid of the inbound frame that started the cycle.
TtsReturnFrom(k, len, msid) ==
    /\ pc[k] = "tts"
    /\ LET s == local[k].session
           done == NoReply(sess[s])
       IN /\ sess' = [sess EXCEPT ![s] =
                        IF len > 0 THEN Speak(done, len) ELSE done]
          /\ timers' = IF local[k].action = "end"
                       THEN timers \cup {NewTimer(conn_sid[k], s, len)}
                       ELSE timers
          /\ last' = [Ev("tts", k, s, "audio", len > 0)
                         EXCEPT !.sid = IF len > 0
                                        THEN Reframe(stream_sid[k], msid)
                                        ELSE "None",
                                !.arg = msid]
    /\ sent' = [sent EXCEPT ![k] = IF len > 0 THEN @ + 1 ELSE @]
    /\ pc' = [pc EXCEPT ![k] = "recv"]
    /\ local' = [local EXCEPT ![k] = NoLocal]
    /\ scenB' = IF len > 0 THEN scenB ELSE ScenOff
    /\ UNCHANGED << codec, now, sessions, nalloc, call_log, conn_sid, conn_session,
                    stream_sid, greeting_sent, task, calls, hangups >>

\* The same return for an inbound frame that carried the identifier the
\* stream's start event gave.
TtsReturn(k, len) == TtsReturnFrom(k, len, stream_sid[k])

\* The same return in two steps. First synthesize_async returns and
\* handle_websocket_message returns the media event to websocket_stream, which
\* is about to await send_json.
TtsProduce(k, len) ==
    /\ pc[k] = "tts"
    /\ len > 0
    /\ LET s == local[k].session
       IN /\ sess' = [sess EXCEPT ![s] = Speak(NoReply(sess[s]), len)]
          /\ timers' = IF local[k].action = "end"
                       THEN timers \cup {NewTimer(conn_sid[k], s, len)}
                       ELSE timers
          /\ last' = Ev("tts", k, s, "produced", FALSE)
    /\ pc' = [pc EXCEPT ![k] = "send"]
    /\ UNCHANGED << codec, now, sessions, nalloc, call_log, conn_sid, conn_session,
                    stream_sid, greeting_sent, local, task, calls, sent,
                    hangups, scenB >>

\* Then send_json hands the frame to the transport.
SendReply(k) ==
    /\ pc[k] = "send"
    /\ sent' = [sent EXCEPT ![k] = @ + 1]
    /\ pc' = [pc EXCEPT ![k] = "recv"]
    /\ local' = [local EXCEPT ![k] = NoLocal]
    /\ last' = [Ev("send", k, local[k].session, "audio", TRUE)
                   EXCEPT !.sid = stream_sid[k], !.arg = stream_sid[k]]
    /\ UNCHANGED << codec, now, sessions, sess, nalloc, call_log, conn_sid,
                    conn_session, stream_sid, greeting_sent, task, timers,
                    calls, hangups, scenB >>

\* A collaborator (or the codec) raises inside process_audio_chunk's try.
PipelineFails(k) ==
    /\ pc[k] \in InFlight
    /\ LET s == local[k].session
       IN /\ sess' = [sess EXCEPT ![s] = NoReply(@)]
          /\ last' = Ev(pc[k], k, s, "error", FALSE)
    /\ pc' = [pc EXCEPT ![k] = "recv"]
    /\ local' = [local EXCEPT ![k] = NoLocal]
    /\ scenB' = ScenOff
    /\ UNCHANGED << codec, now, sessions, nalloc, call_log, conn_sid, conn_session,
                    stream_sid, greeting_sent, task, timers, calls, sent,
                    hangups >>

\* --------------------------------------------------------------- end_call
\* Mutant: the session is looked up, not popped.
RetireKeeps(svc, sid) ==
    LET s == sessions[svc][sid]
    IN [ popped |-> s,
         registry |-> sessions,
         heap |-> IF s # NoSession THEN [sess EXCEPT ![s].is_active = FALSE] ELSE sess ]

\* Mutant: every entry of the registry is dropped.
RetireAll(svc, sid) ==
    LET s == sessions[svc][sid]
    IN [ popped |-> s,
         registry |-> [sessions EXCEPT ![svc] = [x \in CallSids |-> NoSession]],
         heap |-> IF s # NoSession THEN [sess EXCEPT ![s].is_active = FALSE] ELSE sess ]

\* end_call up to its first suspension: the session is popped and marked.
Retire(svc, sid) ==
    LET s == sessions[svc][sid]
    IN [ popped |-> s,
         registry |-> [sessions EXCEPT ![svc][sid] = NoSession],
         heap |-> IF s # NoSession THEN [sess EXCEPT ![s].is_active = FALSE] ELSE sess ]

\* websocket_stream's "finally: end_call(call_sid)" up to its suspension.
Finally(k) ==
    LET r == Retire("voice", conn_sid[k])
    IN /\ sessions' = r.registry
       /\ sess' = r.heap
       /\ pc' = [pc EXCEPT ![k] = IF r.popped = NoSession THEN "closed" ELSE "final_db"]
       /\ local' = [local EXCEPT ![k] = [NoLocal EXCEPT !.ending = r.popped]]

\* The "stop" event: handle_websocket_message calls end_call; with nothing to
\* retire it returns at once, the loop breaks and the finally clause runs.
StopEvent(k) ==
    /\ pc[k] = "recv"
    /\ LET r == Retire("voice", conn_sid[k])
       IN /\ sessions' = r.registry
          /\ sess' = r.heap
          /\ pc' = [pc EXCEPT ![k] = IF r.popped = NoSession THEN "closed" ELSE "stop_db"]
          /\ local' = [local EXCEPT ![k] = [NoLocal EXCEPT !.ending = r.popped]]
          /\ last' = Other
    /\ scenB' = ScenOff
    /\ UNCHANGED << codec, now, nalloc, call_log, conn_sid, conn_session, stream_sid,
                    greeting_sent, task, timers, calls, sent, hangups >>

\* The stop event's end_call finishes its transaction; the loop breaks and
\* the finally clause calls end_call again.
StopDb(k) ==
    /\ pc[k] = "stop_db"
    /\ call_log' = EndCallDb(local[k].ending, conn_sid[k])
    /\ Finally(k)
    /\ last' = Other
    /\ UNCHANGED << codec, now, nalloc, conn_sid, conn_session, stream_sid,
                    greeting_sent, task, timers, calls, sent, hangups, scenB >>

\* receive_text raises (the peer is gone, or the text is no JSON).
Disconnect(k) ==
    /\ pc[k] = "recv"
    /\ Finally(k)
    /\ last' = Other
    /\ scenB' = ScenOff
    /\ UNCHANGED << codec, now, nalloc, call_log, conn_sid, conn_session, stream_sid,
                    greeting_sent, task, timers, calls, sent, hangups >>

\* A media frame whose payload base64.b64decode rejects: the error leaves
\* handle_websocket_message and reaches websocket_stream's except and finally
\* clauses.
BadMedia(k) ==
    /\ pc[k] = "recv"
    /\ Finally(k)
    /\ last' = Ev("bad_media", k, GetSession("voice", conn_sid[k]), "error", FALSE)
    /\ scenB' = ScenOff
    /\ UNCHANGED << codec, now, nalloc, call_log, conn_sid, conn_session, stream_sid,
                    greeting_sent, task, timers, calls, sent, hangups >>

\* get_greeting_audio raises: websocket_stream's except and finally clauses.
GreetingFails(k) ==
    /\ pc[k] = "greeting"
    /\ Finally(k)
    /\ last' = Ev("greeting", k, GetSession("voice", conn_sid[k]), "error", FALSE)
    /\ scenB' = ScenOff
    /\ UNCHANGED << codec, now, nalloc, call_log, conn_sid, conn_session, stream_sid,
                    greeting_sent, task, timers, calls, sent, hangups >>

\* send_json raises (the peer is gone): the except and finally clauses.
SendFails(k) ==
    /\ pc[k] = "send"
    /\ Finally(k)
    /\ last' = Ev("send", k, local[k].session, "error", FALSE)
    /\ scenB' = ScenOff
    /\ UNCHANGED << codec, now, nalloc, call_log, conn_sid, conn_session, stream_sid,
                    greeting_sent, task, timers, calls, sent, hangups >>

\* The finally clause's end_call finishes its transaction.
FinalDb(k) ==
    /\ pc[k] = "final_db"
    /\ call_log' = EndCallDb(local[k].ending, conn_sid[k])
    /\ pc' = [pc EXCEPT ![k] = "closed"]
    /\ local' = [local EXCEPT ![k] = NoLocal]
    /\ last' = Other
    /\ UNCHANGED << codec, now, sessions, sess, nalloc, conn_sid, conn_session,
                    stream_sid, greeting_sent, task, timers, calls, sent,
                    hangups, scenB >>

\* ------------------------------------------------------------ the webhooks
Terminal == {"completed", "failed", "busy", "no-answer", "canceled"}

\* handle_voice_webhook: get_session and, without a session, start_call.
VoiceWebhook(t, sid) ==
    /\ task[t].pc = "idle"
    /\ IF GetSession("webhook", sid) # NoSession
       THEN /\ last' = Other
            /\ UNCHANGED << sessions, sess, nalloc, task >>
       ELSE LET r == StartCall("webhook", sid)
            IN /\ nalloc < MaxSessions
               /\ sessions' = r.registry
               /\ sess' = r.heap
               /\ nalloc' = r.ret
               /\ task' = [task EXCEPT ![t] =
                             [pc |-> "start_db", sid |-> sid, session |-> r.ret]]
               /\ last' = Other
    /\ UNCHANGED << codec, now, call_log, pc, conn_sid, conn_session, stream_sid,
                    greeting_sent, local, timers, calls, sent, hangups, scenB >>

\* start_call invoked directly on a CallService.
ApiStartCall(t, svc, sid) ==
    /\ task[t].pc = "idle"
    /\ LET r == StartCall(svc, sid)
       IN /\ r.created => nalloc < MaxSessions
          /\ sessions' = r.registry
          /\ sess' = r.heap
          /\ nalloc' = IF r.created THEN r.ret ELSE nalloc
          /\ task' = [task EXCEPT ![t] =
                        [pc |-> IF r.created THEN "start_db" ELSE "idle",
                         sid |-> sid, session |-> r.ret]]
          /\ last' = Ev("start_call", t, r.ret,
                        IF r.created THEN "created" ELSE "existing", FALSE)
    /\ UNCHANGED << codec, now, call_log, pc, conn_sid, conn_session, stream_sid,
                    greeting_sent, local, timers, calls, sent, hangups, scenB >>

\* start_call's transaction, for a webhook or a direct invocation.
TaskStartDb(t) ==
    /\ task[t].pc = "start_db"
    /\ call_log' = StartCallDb(task[t].sid)
    /\ task' = [task EXCEPT ![t].pc = "idle"]
    /\ last' = Other
    /\ UNCHANGED << codec, now, sessions, sess, nalloc, pc, conn_sid, conn_session,
                    stream_sid, greeting_sent, local, timers, calls, sent,
                    hangups, scenB >>

\* handle_status_webhook: update_call_status, then end_call for a terminal
\* status, up to end_call's suspension.
StatusWebhook(t, sid, status) ==
    /\ task[t].pc = "idle"
    /\ call_log' = UpdateCallStatus(sid, status)
    /\ IF status \in Terminal
       THEN LET r == Retire("webhook", sid)
            IN /\ sessions' = r.registry
               /\ sess' = r.heap
               /\ task' = [task EXCEPT ![t] =
                             [pc |-> IF r.popped = NoSession THEN "idle" ELSE "end_db",
                              sid |-> sid, session |-> r.popped]]
               /\ last' = Ev("status", t, r.popped, status, FALSE)
       ELSE /\ last' = Other
            /\ UNCHANGED << sessions, sess, task >>
    /\ UNCHANGED << codec, now, nalloc, pc, conn_sid, conn_session, stream_sid,
                    greeting_sent, local, timers, calls, sent, hangups, scenB >>

\* The status webhook's end_call finishes its transaction.
TaskEndDb(t) ==
    /\ task[t].pc = "end_db"
    /\ call_log' = EndCallDb(task[t].session, task[t].sid)
    /\ task' = [task EXCEPT ![t].pc = "idle"]
    /\ last' = Other
    /\ UNCHANGED << codec, now, sessions, sess, nalloc, pc, conn_sid, conn_session,
                    stream_sid, greeting_sent, local, timers, calls, sent,
                    hangups, scenB >>

\* -------------------------------------------------------- _delayed_hangup
\* asyncio.sleep(delay) is over: end_call(call_sid, hangup=True) up to its
\* suspension. With no session registered end_call returns at once.
FireHangup(tm) ==
    /\ tm \in timers
    /\ tm.pc = "sleep"
    /\ now >= tm.due
    /\ LET r == Retire("voice", tm.sid)
       IN /\ sessions' = r.registry
          /\ sess' = r.heap
          /\ timers' = IF r.popped = NoSession
                       THEN timers \ {tm}
                       ELSE (timers \ {tm}) \cup
                            {[tm EXCEPT !.pc = "db", !.victim = r.popped]}
          /\ last' = Ev("hangup", "timer", r.popped,
                        IF sess[tm.sess].is_active THEN "live" ELSE "stale", FALSE)
    /\ UNCHANGED << codec, now, nalloc, call_log, pc, conn_sid, conn_session,
                    stream_sid, greeting_sent, local, task, calls, sent,
                    hangups, scenB >>

\* The timer's end_call finishes its transaction and hangs up via Twilio.
HangupDb(tm) ==
    /\ tm \in timers
    /\ tm.pc = "db"
    /\ call_log' = EndCallDb(tm.victim, tm.sid)
    /\ hangups' = [hangups EXCEPT ![tm.sid] = @ + 1]
    /\ timers' = timers \ {tm}
    /\ last' = Other
    /\ UNCHANGED << codec, now, sessions, sess, nalloc, pc, conn_sid, conn_session,
                    stream_sid, greeting_sent, local, task, calls, sent, scenB >>

\* ------------------------------------------------------------------ time
\* Half a second passes. A frame being handed to the transport is handed
\* over within the half second.
Tick ==
    /\ now < MaxTime
    /\ \A k \in Conns : pc[k] # "send"
    /\ now' = now + 1
    /\ last' = Other
    /\ UNCHANGED << codec, sessions, sess, nalloc, call_log, pc, conn_sid,
                    conn_session, stream_sid, greeting_sent, local, task,
                    timers, calls, sent, hangups, scenB >>

\* ------------------------------------------------------------ line codec
\* A line byte is decoded to a PCM16 sample.
Decode ==
    /\ codec.phase = "mulaw"
    /\ codec' = [codec EXCEPT !.phase = "pcm", !.pcm = mulaw_to_pcm16(codec.byte)]
    /\ UNCHANGED << now, sessions, sess, nalloc, call_log, pc, conn_sid,
                    conn_session, stream_sid, greeting_sent, local, task,
                    timers, calls, sent, hangups, scenB, last >>

\* The sample is encoded to a line byte.
Encode ==
    /\ codec.phase = "pcm"
    /\ codec' = [codec EXCEPT !.phase = "out", !.out = pcm16_to_mulaw(codec.pcm)]
    /\ UNCHANGED << now, sessions, sess, nalloc, call_log, pc, conn_sid,
                    conn_session, stream_sid, greeting_sent, local, task,
                    timers, calls, sent, hangups, scenB, last >>

\* A PCM16 sample is encoded to a line byte.
EncodeSample ==
    /\ codec.phase = "sample"
    /\ codec' = [codec EXCEPT !.phase = "coded", !.out = pcm16_to_mulaw(codec.pcm)]
    /\ UNCHANGED << now, sessions, sess, nalloc, call_log, pc, conn_sid,
                    conn_session, stream_sid, greeting_sent, local, task,
                    timers, calls, sent, hangups, scenB, last >>

\* The line byte is decoded again.
DecodeBack ==
    /\ codec.phase = "coded"
    /\ codec' = [codec EXCEPT !.phase = "back", !.back = mulaw_to_pcm16(codec.out)]
    /\ UNCHANGED << now, sessions, sess, nalloc, call_log, pc, conn_sid,
                    conn_session, stream_sid, greeting_sent, local, task,
                    timers, calls, sent, hangups, scenB, last >>

\* ------------------------------------------------------- specifications
Texts == {"hello", ""}
Actions == {"continue", "transfer", "end"}
Statuses == {"in-progress", "completed", "failed"}

\* A new stream connection is opened where an earlier one has ended: the
\* websocket_stream coroutine starts afresh.
Reopen(k) ==
    /\ pc[k] = "closed"
    /\ pc' = [pc EXCEPT ![k] = "idle"]
    /\ conn_sid' = [conn_sid EXCEPT ![k] = "none"]
    /\ conn_session' = [conn_session EXCEPT ![k] = NoSession]
    /\ stream_sid' = [stream_sid EXCEPT ![k] = "None"]
    /\ greeting_sent' = [greeting_sent EXCEPT ![k] = FALSE]
    /\ last' = Other
    /\ UNCHANGED << codec, now, sessions, sess, nalloc, call_log, local, task,
                    timers, calls, sent, hangups, scenB >>

\* Two stream connections serving one call: turns and retirement.
Next ==
    \/ \E k \in Conns, sid \in OneCall : Connect(k, sid)
    \/ \E k \in Conns : ConnectDb(k)
    \/ \E k \in Conns, f \in CoarseFrames : HandleMedia(k, f)
    \/ \E k \in Conns, text \in Texts : SttReturn(k, text)
    \/ \E k \in Conns, action \in {"continue", "transfer"} : LlmReturn(k, action)
    \/ \E k \in Conns, len \in ReplyLens : TtsReturn(k, len)
    \/ \E k \in Conns : PipelineFails(k)
    \/ \E k \in Conns : StopEvent(k)
    \/ \E k \in Conns : StopDb(k)
    \/ \E k \in Conns : Disconnect(k)
    \/ \E k \in Conns : FinalDb(k)
    \/ Tick

Spec == Init /\ [][Next]_vars

\* One stream connection fed 20 ms frames: endpointing, greeting, one turn
\* after the other.
NextEndpointing ==
    \/ \E sid \in OneCall : Connect("w1", sid)
    \/ ConnectDb("w1")
    \/ \E f \in FineFrames : HandleMedia("w1", f)
    \/ \E text \in Texts : SttReturn("w1", text)
    \/ \E action \in Actions : LlmReturn("w1", action)
    \/ \E len \in ReplyLens : TtsReturn("w1", len)
    \/ PipelineFails("w1")

SpecEndpointing == Init /\ [][NextEndpointing]_vars

\* One stream connection at a time with its turns, the hangup timers and the
\* clock.
NextHangup ==
    \/ \E sid \in OneCall : Connect("w1", sid)
    \/ ConnectDb("w1")
    \/ \E f \in CoarseFrames : HandleMedia("w1", f)
    \/ \E text \in Texts : SttReturn("w1", text)
    \/ \E action \in {"continue", "end"} : LlmReturn("w1", action)
    \/ \E len \in ReplyLens : TtsReturn("w1", len)
    \/ PipelineFails("w1")
    \/ StopEvent("w1")
    \/ StopDb("w1")
    \/ Disconnect("w1")
    \/ FinalDb("w1")
    \/ Reopen("w1")
    \/ \E tm \in timers : FireHangup(tm)
    \/ \E tm \in timers : HangupDb(tm)
    \/ Tick

SpecHangup == Init /\ [][NextHangup]_vars

\* One stream connection whose turns may end the call: the farewell, the
\* hangup timer and the clock.
NextFarewell ==
    \/ \E sid \in OneCall : Connect("w1", sid)
    \/ ConnectDb("w1")
    \/ \E f \in CoarseFrames : HandleMedia("w1", f)
    \/ \E text \in Texts : SttReturn("w1", text)
    \/ \E action \in {"continue", "end"} : LlmReturn("w1", action)
    \/ \E len \in ReplyLens : TtsReturn("w1", len)
    \/ \E tm \in timers : FireHangup(tm)
    \/ \E tm \in timers : HangupDb(tm)
    \/ Tick

SpecFarewell == Init /\ [][NextFarewell]_vars

\* Two stream connections serving one call, the reply's way to the transport
\* in two steps.
NextReply ==
    \/ \E k \in Conns, sid \in OneCall : Connect(k, sid)
    \/ \E k \in Conns : ConnectDb(k)
    \/ \E k \in Conns, f \in CoarseFrames : HandleMedia(k, f)
    \/ \E k \in Conns, text \in Texts : SttReturn(k, text)
    \/ \E k \in Conns, action \in {"continue", "transfer"} : LlmReturn(k, action)
    \/ \E k \in Conns : TtsReturn(k, 0)
    \/ \E k \in Conns, len \in ReplyLens : TtsProduce(k, len)
    \/ \E k \in Conns : SendReply(k)
    \/ \E k \in Conns : SendFails(k)
    \/ \E k \in Conns : FinalDb(k)
    \/ \E k \in Conns : PipelineFails(k)
    \/ Tick

SpecReply == Init /\ [][NextReply]_vars

\* The line codec applied to every byte (decoded, then encoded again) and to
\* every sample (encoded, then decoded again).
InitCodec ==
    /\ codec \in {[NoCodec EXCEPT !.phase = "mulaw", !.byte = b] : b \in Bytes}
                \cup {[NoCodec EXCEPT !.phase = "sample", !.pcm = s] : s \in Samples}
    /\ now = 0
    /\ sessions = [svc \in Services |-> [sid \in CallSids |-> NoSession]]
    /\ sess = [i \in SessIds |-> Unborn]
    /\ nalloc = 0
    /\ call_log = [sid \in CallSids |->
                     [exists |-> FALSE, status |-> "none",
                      transcription |-> << >>, ended |-> FALSE]]
    /\ pc = [k \in Conns |-> "idle"]
    /\ conn_sid = [k \in Conns |-> "none"]
    /\ conn_session = [k \in Conns |-> NoSession]
    /\ stream_sid = [k \in Conns |-> "None"]
    /\ greeting_sent = [k \in Conns |-> FALSE]
    /\ local = [k \in Conns |-> NoLocal]
    /\ task = [t \in Tasks |-> [pc |-> "idle", sid |-> "none", session |-> NoSession]]
    /\ timers = {}
    /\ calls = [stt |-> 0, llm |-> 0, tts |-> 0, greeting |-> 0]
    /\ sent = [k \in Conns |-> 0]
    /\ hangups = [sid \in CallSids |-> 0]
    /\ scenB = [phase |-> "fresh", loud |-> 0, quiet |-> 0]
    /\ last = Other

NextCodec ==
    \/ Decode
    \/ Encode
    \/ EncodeSample
    \/ DecodeBack

SpecCodec == InitCodec /\ [][NextCodec]_vars

\* Two calls, each on its own stream connection: the first with its turns,
\* failures, retirements and hangup timers, the second with its turns.
CallOf == [w1 |-> "CA1", w2 |-> "CA2"]

NextTwoCalls ==
    \/ \E k \in Conns : Connect(k, CallOf[k])
    \/ \E k \in Conns : ConnectDb(k)
    \/ \E k \in Conns, f \in CoarseFrames : HandleMedia(k, f)
    \/ \E k \in Conns, text \in Texts : SttReturn(k, text)
    \/ \E action \in {"continue", "end"} : LlmReturn("w1", action)
    \/ LlmReturn("w2", "continue")
    \/ \E k \in Conns, len \in ReplyLens : TtsReturn(k, len)
    \/ PipelineFails("w1")
    \/ BadMedia("w1")
    \/ StopEvent("w1")
    \/ StopDb("w1")
    \/ Disconnect("w1")
    \/ FinalDb("w1")
    \/ \E tm \in timers : FireHangup(tm)
    \/ \E tm \in timers : HangupDb(tm)
    \/ Tick

SpecTwoCalls == Init /\ [][NextTwoCalls]_vars

\* One stream connection with its greeting, its turns and the clock: the
\* echo-suppression window.
SuppressionFrames == CoarseFrames \cup {[len |-> 30000, quiet |-> 30000]}

NextSuppression ==
    \/ \E sid \in OneCall : Connect("w1", sid)
    \/ ConnectDb("w1")
    \/ \E ssid \in StreamSids \cup {"None"} : StartEvent("w1", ssid)
    \/ \E len \in ReplyLens : GreetingReturn("w1", len)
    \/ GreetingFails("w1")
    \/ \E f \in SuppressionFrames : HandleMedia("w1", f)
    \/ \E text \in Texts : SttReturn("w1", text)
    \/ \E action \in Actions : LlmReturn("w1", action)
    \/ \E len \in ReplyLens : TtsReturn("w1", len)
    \/ PipelineFails("w1")
    \/ BadMedia("w1")
    \/ Disconnect("w1")
    \/ FinalDb("w1")
    \/ Tick

SpecSuppression == Init /\ [][NextSuppression]_vars

\* The webhooks, direct start_call invocations and the stream connections
\* opening and closing: the registries and the call record.
NextLifecycle ==
    \/ \E k \in Conns, sid \in OneCall : Connect(k, sid)
    \/ \E k \in Conns : ConnectDb(k)
    \/ \E k \in Conns : StopEvent(k)
    \/ \E k \in Conns : StopDb(k)
    \/ \E k \in Conns : Disconnect(k)
    \/ \E k \in Conns : FinalDb(k)
    \/ \E k \in Conns : Reopen(k)
    \/ \E t \in Tasks, sid \in OneCall : VoiceWebhook(t, sid)
    \/ \E t \in Tasks, sid \in OneCall : ApiStartCall(t, "voice", sid)
    \/ \E t \in Tasks : TaskStartDb(t)
    \/ \E t \in Tasks, sid \in OneCall, st \in Statuses : StatusWebhook(t, sid, st)
    \/ \E t \in Tasks : TaskEndDb(t)

SpecLifecycle == Init /\ [][NextLifecycle]_vars

\* ------------------------------------------------ the window specification
\* One connection whose start event may come before or after media frames,
\* with replies of half a second and of a second and a half of line audio.
LongReplyLens == {4000, 12000}

\* The streamSid of an inbound media frame: the stream's, another, or none.
MsgSids == {"MZ1", "MZ9", "None"}

NextWindow ==
    \/ \E sid \in OneCall : Connect("w1", sid)
    \/ ConnectDb("w1")
    \/ \E ssid \in StreamSids \cup {"None"} : StartEvent("w1", ssid)
    \/ \E len \in ReplyLens : GreetingReturn("w1", len)
    \/ \E f \in SuppressionFrames : HandleMedia("w1", f)
    \/ SttReturn("w1", "hello")
    \/ LlmReturn("w1", "continue")
    \/ \E len \in LongReplyLens, msid \in MsgSids : TtsReturnFrom("w1", len, msid)
    \/ Tick

SpecWindow == Init /\ [][NextWindow]_vars

\* ------------------------------------------------ the record specification
\* One call from its voice webhook to its end: one stream connection with
\* turns, stop and disconnect, the status webhooks and the delayed hangup.
\* A frame stands for a run of frames that takes the buffer past the hard
\* maximum.
RunFrames == {[len |-> 50000, quiet |-> 0]}

NextRecord ==
    \/ \E sid \in OneCall : VoiceWebhook("t1", sid)
    \/ TaskStartDb("t1")
    \/ \E sid \in OneCall : Connect("w1", sid)
    \/ ConnectDb("w1")
    \/ \E f \in RunFrames : HandleMedia("w1", f)
    \/ SttReturn("w1", "hello")
    \/ LlmReturn("w1", "end")
    \/ TtsReturn("w1", 4000)
    \/ StopEvent("w1")
    \/ StopDb("w1")
    \/ Disconnect("w1")
    \/ FinalDb("w1")
    \/ Reopen("w1")
    \/ \E sid \in OneCall : StatusWebhook("t1", sid, "completed")
    \/ TaskEndDb("t1")
    \/ \E tm \in timers : FireHangup(tm)
    \/ \E tm \in timers : HangupDb(tm)
    \/ Tick

SpecRecord == Init /\ [][NextRecord]_vars

\* ================================================================ claims
Registered(svc, sid) == sessions[svc][sid]

\* The connections inside a Processing cycle (transcription, dialogue,
\* synthesis) of session s.
Pipelines(s) == {k \in Conns : pc[k] \in InFlight /\ local[k].session = s}

\* C1: every session has at most one Processing cycle in flight, whatever
\* frames the connections of its call handle meanwhile, and is_processing is
\* true for as long as the cycle runs.
C1_OnePipelinePerSession ==
    \A s \in SessIds :
        /\ Cardinality(Pipelines(s)) <= 1
        /\ Pipelines(s) # {} => sess[s].is_processing

\* A second connection has handled a frame for a session whose cycle is in
\* flight on the first.
C1_Witness ==
    \E k \in Conns :
        /\ pc[k] \in InFlight
        /\ last.op = "media" /\ last.res = "busy"
        /\ last.who # k /\ last.sess = local[k].session

\* C2: a media frame handled while now < speaking_until leaves audio_buffer
\* and silent_chunks as they are, starts no Processing cycle and sends no
\* outbound frame.
C2_SuppressedFrameDropped ==
    [][\A k \in Conns :
         (/\ pc[k] = "recv"
          /\ last'.op = "media" /\ last'.who = k
          /\ Registered("voice", conn_sid[k]) # NoSession
          /\ sess[Registered("voice", conn_sid[k])].speaking_until # << >>
          /\ now < sess[Registered("voice", conn_sid[k])].speaking_until[1])
         => LET s == Registered("voice", conn_sid[k])
            IN /\ sess'[s].audio_buffer = sess[s].audio_buffer
               /\ sess'[s].silent_chunks = sess[s].silent_chunks
               /\ sess'[s].is_processing = sess[s].is_processing
               /\ pc'[k] = "recv"
               /\ calls' = calls
               /\ sent' = sent]_vars

\* A frame has been dropped inside the window of a session that holds
\* buffered audio and a run of silent frames.
C2_Witness ==
    /\ last.op = "media" /\ last.res = "suppressed"
    /\ sess[last.sess].audio_buffer > 0
    /\ sess[last.sess].silent_chunks > 0
    /\ now < sess[last.sess].speaking_until[1]

\* C3: the reply of a Processing cycle whose session was retired while the
\* cycle was in flight is discarded: no outbound media frame is sent for a
\* session that has been retired.
C3_NoReplyAfterRetirement ==
    (last.op = "tts" /\ last.out) => sess[last.sess].is_active

\* C4: when the transcription collaborator raises, neither the dialogue nor
\* the synthesis collaborator is called, no outbound frame is produced, the
\* session stays registered and listening, and audio_buffer is empty when
\* the cycle ends.
C4_SttErrorDropsTurn ==
    [][\A k \in Conns :
         (pc[k] = "stt" /\ last'.op = "stt" /\ last'.res = "error" /\ last'.who = k)
         => LET s == local[k].session
            IN /\ calls' = calls
               /\ sent' = sent
               /\ sessions' = sessions
               /\ pc'[k] = "recv"
               /\ ~sess'[s].is_processing
               /\ sess'[s].audio_buffer = 0]_vars

\* C5: 4800 bytes of non-silent audio followed by 15 silent frames, fed to a
\* fresh listening session whose collaborators answer, give exactly one
\* transcription, one dialogue and one synthesis call and one outbound frame.
C5_ScenarioB ==
    (/\ scenB.phase = "quiet" /\ scenB.loud = 4800 /\ scenB.quiet = 15
     /\ pc["w1"] = "recv")
    => (/\ calls.stt = 1 /\ calls.llm = 1 /\ calls.tts = 1
        /\ sent["w1"] = 1)

\* The live sessions of a call, over both CallService instances.
LiveSessions(sid) ==
    {s \in Allocated : sess[s].call_sid = sid /\ sess[s].is_active}

\* C6: at most one live Call Session exists per call_sid, counting those the
\* webhook handler and the stream endpoint create.
C6_OneSessionPerCall ==
    \A sid \in CallSids : Cardinality(LiveSessions(sid)) <= 1

\* C7: start_call for a call_sid that is registered returns the registered
\* CallSession, leaves every session and the registry as they are and
\* constructs nothing, also while another start_call is suspended.
C7_StartCallIdempotent ==
    [][\A t \in Tasks :
         (/\ last'.op = "start_call" /\ last'.who = t
          /\ Registered("voice", task'[t].sid) # NoSession)
         => /\ task'[t].session = Registered("voice", task'[t].sid)
            /\ sess' = sess
            /\ sessions' = sessions
            /\ nalloc' = nalloc]_vars

\* start_call has returned the session whose first start_call still awaits
\* its transaction.
C7_Witness ==
    /\ last.op = "start_call" /\ last.res = "existing"
    /\ \E k \in Conns : pc[k] = "start_db" /\ conn_session[k] = last.sess
    /\ Registered("voice", "CA1") = last.sess

\* C8: after a frame is appended, a Processing cycle starts exactly when the
\* buffer holds at least 8000 bytes and either 15 or more consecutive silent
\* frames have been heard or the buffer holds more than 48000 bytes.
C8_TriggerThresholds ==
    (last.op = "media" /\ last.res \in {"buffered", "started", "refused"})
    => LET s == sess[last.sess]
       IN (pc[last.who] = "stt" /\ s.is_processing)
          <=> (/\ s.audio_buffer >= 8000
               /\ (s.silent_chunks >= 15 \/ s.audio_buffer > 48000))

\* The 15th silent frame brings the buffer to exactly 8000 bytes and starts
\* the cycle.
C8_Witness ==
    /\ last.op = "media" /\ last.res = "started"
    /\ sess[last.sess].audio_buffer = 8000
    /\ sess[last.sess].silent_chunks = 15

\* 8000 bytes and a run of 14 silent frames: no cycle.
C8_WitnessBelow ==
    /\ last.op = "media" /\ last.res = "buffered"
    /\ sess[last.sess].audio_buffer = 8000
    /\ sess[last.sess].silent_chunks = 14

\* More than 48000 bytes and no silent frame: a cycle.
C8_WitnessOver ==
    /\ last.op = "media" /\ last.res = "started"
    /\ sess[last.sess].audio_buffer > 48000
    /\ sess[last.sess].silent_chunks = 0

\* C9: a media frame handled while the session's Processing cycle is in
\* flight is appended to audio_buffer and starts no cycle of its own.
C9_FrameDuringProcessingAppended ==
    [][\A k \in Conns :
         (/\ pc[k] = "recv"
          /\ last'.op = "media" /\ last'.who = k
          /\ Registered("voice", conn_sid[k]) # NoSession
          /\ sess[Registered("voice", conn_sid[k])].is_processing)
         => LET s == Registered("voice", conn_sid[k])
            IN /\ sess'[s].audio_buffer > sess[s].audio_buffer
               /\ pc'[k] = "recv"]_vars

\* C10: a delayed hangup that fires after the session it was scheduled for
\* has been retired does nothing: it retires no session, and so writes no
\* call record and asks for no hangup.
C10_StaleHangupIsNoOp ==
    /\ (last.op = "hangup" /\ last.res = "stale") => last.sess = NoSession
    /\ \A tm \in timers : tm.pc = "db" => tm.victim = tm.sess

\* C11: when the dialogue returns action end, the farewell audio is sent and
\* a hangup is scheduled; the schedule retires the session and hangs up only
\* once len(audio)/8000 + 1.0 seconds have passed since then.
C11_HangupAfterFarewell ==
    [][/\ \A k \in Conns :
            (/\ pc[k] = "tts" /\ local[k].action = "end"
             /\ last'.op = "tts" /\ last'.res = "audio" /\ last'.who = k)
            => /\ last'.out => sent'[k] = sent[k] + 1
               /\ \E tm \in timers' \ timers :
                     tm.pc = "sleep" /\ tm.sid = conn_sid[k] /\ tm.at = now
       /\ \A tm \in timers :
            (tm.pc = "sleep" /\ tm \notin timers')
            => /\ (now - tm.at) * 8000 >= 2 * tm.len + 16000
               /\ \A sid \in CallSids : hangups'[sid] = hangups[sid]
       /\ \A sid \in CallSids :
            hangups'[sid] # hangups[sid]
            => \E tm \in timers :
                  /\ tm.pc = "db" /\ tm.sid = sid
                  /\ (now - tm.at) * 8000 >= 2 * tm.len + 16000]_vars

\* A hangup scheduled with a 4000-byte farewell has retired its session
\* exactly 1.5 s later.
C11_Witness ==
    \E tm \in timers :
        /\ tm.pc = "db" /\ tm.len = 4000 /\ now = tm.at + 3
        /\ tm.victim = tm.sess
        /\ sent["w1"] >= 1

C13_GreetingFirst ==
    [][\A k \in Conns :
         /\ (pc[k] = "greeting" /\ last'.op = "greeting" /\ last'.who = k /\ last'.out)
            => LET s == conn_session[k]
               IN /\ sent'[k] = sent[k] + 1
                  /\ greeting_sent'[k]
                  /\ sess'[s].speaking_until # << >>
                  /\ \E len \in ReplyLens \ {0} :
                        (sess'[s].speaking_until[1] - now) * 8000 = 2 * len + 16000
         /\ pc[k] = "greeting"
            => /\ sess'[conn_session[k]].audio_buffer = sess[conn_session[k]].audio_buffer
               /\ calls'.stt = calls.stt
         /\ (/\ pc[k] = "recv" /\ greeting_sent[k]
             /\ last'.op = "media" /\ last'.who = k
             /\ sess[conn_session[k]].speaking_until # << >>
             /\ now < sess[conn_session[k]].speaking_until[1])
            => /\ sess'[conn_session[k]] = sess[conn_session[k]]
               /\ calls' = calls
               /\ pc'[k] = "recv"]_vars

\* A frame has been dropped in the last half second of the greeting's
\* window, before any turn.
C13_Witness ==
    /\ last.op = "media" /\ last.res = "suppressed" /\ last.who = "w1"
    /\ greeting_sent["w1"]
    /\ calls.stt = 0
    /\ sess[last.sess].speaking_until = << now + 1 >>

\* C14: once a status notification with a terminal status has been handled
\* for a call, no live session of that call remains, the one serving the
\* call's audio stream included.
C14_TerminalStatusRetires ==
    (last.op = "status" /\ last.res \in Terminal)
    => LiveSessions(task[last.who].sid) = {}

\* C15: once a connection has handled a stop event, the call's session is
\* out of the registry (a retired session is never registered again) and the
\* connection sends no further outbound frame.
C15_StopRetiresAndSilences ==
    [][\A k \in Conns :
         /\ (pc[k] = "recv" /\ pc'[k] \in {"stop_db", "closed"})
            => Registered("voice", conn_sid[k])' = NoSession
         /\ (pc[k] = "recv" /\ pc'[k] = "stop_db")
            => ~sess'[local'[k].ending].is_active
         /\ pc[k] \in {"stop_db", "final_db", "closed"} => sent'[k] = sent[k]
         /\ \A s \in SessIds :
              (s <= nalloc /\ ~sess[s].is_active)
              => /\ ~sess'[s].is_active
                 /\ \A svc \in Services, sid \in CallSids : Registered(svc, sid)' # s]_vars

\* A connection that has sent a reply has handled the stop event and awaits
\* end_call's transaction.
C15_Witness ==
    \E k \in Conns :
        /\ pc[k] = "stop_db"
        /\ sent[k] >= 1
        /\ local[k].ending # NoSession
        /\ Registered("voice", conn_sid[k]) = NoSession

\* C16: a media frame whose payload cannot be decoded is dropped on its own:
\* the session stays registered and active and the connection goes on
\* receiving.
C16_BadFrameDroppedAlone ==
    (last.op = "bad_media" /\ last.sess # NoSession)
    => /\ Registered("voice", conn_sid[last.who]) = last.sess
       /\ sess[last.sess].is_active
       /\ pc[last.who] = "recv"

\* C17: an error raised by the transcription, dialogue or synthesis
\* collaborator ends the turn without a reply: nothing is sent, no further
\* collaborator is called, the session keeps its registration, is_processing
\* is released (it is never true without a cycle in flight) and the
\* connection goes on receiving, so that a later utterance starts a cycle.
C17_PipelineErrorDegrades ==
    [][/\ \A k \in Conns :
            (/\ pc[k] \in InFlight
             /\ last'.op = pc[k] /\ last'.res = "error" /\ last'.who = k)
            => LET s == local[k].session
               IN /\ sent' = sent
                  /\ calls' = calls
                  /\ timers' = timers
                  /\ sessions' = sessions
                  /\ sess'[s].is_active = sess[s].is_active
                  /\ ~sess'[s].is_processing
                  /\ pc'[k] = "recv"
       /\ \A s \in SessIds : sess'[s].is_processing => Pipelines(s)' # {}]_vars

\* A second cycle has started on a session whose first cycle ended with an
\* error of the dialogue collaborator.
C17_Witness ==
    /\ last.op = "media" /\ last.res = "started"
    /\ calls.stt = 2 /\ calls.llm = 1 /\ calls.tts = 0
    /\ sess[last.sess].is_processing
    /\ Registered("voice", "CA1") = last.sess

\* C18: when the stream's transport disconnects or fails, the session is
\* taken out of the registry and the transcript the session has accumulated
\* is written to the call record.
C18_DisconnectPersists ==
    [][\A k \in Conns :
         /\ (pc[k] \in {"recv", "greeting"} /\ pc'[k] \in {"final_db", "closed"})
            => /\ Registered("voice", conn_sid[k])' = NoSession
               /\ local'[k].ending = Registered("voice", conn_sid[k])
               /\ pc'[k] = "final_db" <=> local'[k].ending # NoSession
         /\ (pc[k] = "final_db" /\ pc'[k] = "closed")
            => /\ call_log'[conn_sid[k]].exists
               /\ call_log'[conn_sid[k]].ended
               /\ call_log'[conn_sid[k]].transcription =
                     sess[local[k].ending].transcription_buffer]_vars

\* The connection has failed after a turn, and the call record holds the
\* turn's transcript.
C18_Witness ==
    /\ pc["w1"] = "closed"
    /\ Registered("voice", "CA1") = NoSession
    /\ ~sess[conn_session["w1"]].is_active
    /\ sess[conn_session["w1"]].transcription_buffer = << "User", "Agent" >>
    /\ call_log["CA1"].transcription = << "User", "Agent" >>
    /\ call_log["CA1"].ended

\* What the service holds of one call: its registry entries and its session
\* objects.
View(sid) ==
    [ entry |-> [svc \in Services |-> sessions[svc][sid]],
      objs |-> [s \in SessIds |-> IF sess[s].call_sid = sid THEN sess[s] ELSE Unborn] ]

\* C19: a step taken for one call (a frame, a pipeline return or failure, an
\* undecodable frame, a stop, a disconnect, a delayed hangup) leaves the
\* registry entry and the session of every other call as they are.
C19_CallsIndependent ==
    [][/\ \A k \in Conns :
            (pc'[k] # pc[k] \/ last'.who = k)
            => \A sid \in CallSids \ {conn_sid'[k]} : View(sid)' = View(sid)
       /\ \A tm \in timers :
            tm \notin timers'
            => \A sid \in CallSids \ {tm.sid} : View(sid)' = View(sid)]_vars

\* The delayed hangup of one call has retired that call's session while the
\* other call's session is in the middle of a Processing cycle.
C19_Witness ==
    /\ last.op = "hangup" /\ last.sess # NoSession
    /\ \E s \in Allocated :
          /\ sess[s].call_sid # sess[last.sess].call_sid
          /\ sess[s].is_active /\ sess[s].is_processing
          /\ sess[s].audio_buffer > 0
          /\ Registered("voice", sess[s].call_sid) = s

\* C20: for every line byte b, pcm16_to_mulaw(mulaw_to_pcm16(b)) = b, unless
\* b decodes to the sample another byte decodes to as well.
C20_CodecRoundTrip ==
    codec.phase = "out"
    => \/ codec.out = codec.byte
       \/ \E b \in Bytes \ {codec.byte} : mulaw_to_pcm16(b) = codec.pcm

\* Byte 127 decodes to 0, as byte 255 does, and comes back as 255.
C20_Witness ==
    /\ codec.phase = "out"
    /\ codec.byte = 127 /\ codec.pcm = 0 /\ codec.out = 255
    /\ mulaw_to_pcm16(255) = 0

\* Byte 0 decodes to the largest magnitude and comes back as itself.
C20_WitnessExact ==
    /\ codec.phase = "out"
    /\ codec.byte = 0 /\ codec.pcm = -32124 /\ codec.out = 0

\* The exponent field of a line byte.
ExponentOf(byte) == ((255 - byte) \div 16) % 8

Abs(x) == IF x < 0 THEN -x ELSE x

\* C21: for every PCM16 sample s, mulaw_to_pcm16(pcm16_to_mulaw(s)) differs
\* from s by at most 2^(e+3), e being the exponent s is encoded with.
C21_SampleRoundTrip ==
    codec.phase = "back"
    => Abs(codec.back - codec.pcm) <= 2 ^ (ExponentOf(codec.out) + 3)

\* The largest sample is clipped, encoded in band 7 and comes back 643 lower.
C21_Witness ==
    /\ codec.phase = "back"
    /\ codec.pcm = 32767
    /\ ExponentOf(codec.out) = 7
    /\ codec.back = 32124

\* A sample of band 0 comes back one off.
C21_WitnessLow ==
    /\ codec.phase = "back"
    /\ codec.pcm = -7
    /\ ExponentOf(codec.out) = 0
    /\ codec.back = -8

\* C22: from the moment speaking_until is set until it is cleared, every
\* assignment to it, by a reply or by the greeting, gives a value that is not
\* earlier than the value it replaces.
C22_WindowNeverShortened ==
    [][\A s \in Allocated :
         (sess[s].speaking_until # << >> /\ sess'[s].speaking_until # << >>)
         => sess'[s].speaking_until[1] >= sess[s].speaking_until[1]]_vars

\* C23: once the handling of a media frame has completed, audio_buffer holds
\* at most the hard maximum of 48000 bytes, because a buffer above the maximum
\* always leads to a cycle that empties it.
C23_BufferBounded ==
    \A s \in Allocated :
        ~sess[s].is_processing => sess[s].audio_buffer <= MaxBufferBytes

\* C24: the suppression window set for the greeting is computed by the rule
\* of a normal reply: now + the audio's duration (bytes / 8000) + the same
\* safety margin.
C24_GreetingWindowAsReply ==
    [][\A k \in Conns :
         (pc[k] = "greeting" /\ last'.op = "greeting" /\ last'.who = k /\ last'.out)
         => \E len \in ReplyLens \ {0} :
               sess'[conn_session[k]].speaking_until =
                   Speak(sess[conn_session[k]], len).speaking_until]_vars

\* C25: whenever speaking_until goes from set to cleared, audio_buffer is
\* emptied and silent_chunks zeroed in the same step, so that the frame that
\* opens the new listening window is appended to an empty buffer with a zero
\* silence run.
C25_ClearingResetsBuffer ==
    [][\A s \in Allocated :
         (sess[s].speaking_until # << >> /\ sess'[s].speaking_until = << >>)
         => /\ last'.op = "media" /\ last'.sess = s
            /\ last'.res \in {"buffered", "started"}
            /\ \E f \in SuppressionFrames :
                  /\ sess'[s].audio_buffer = f.len
                  /\ sess'[s].silent_chunks = (IF DetectSilence(f) THEN 1 ELSE 0)]_vars

\* The greeting's window has expired and the frame that cleared it, a silent
\* one, is alone in the buffer.
C25_Witness ==
    /\ last.op = "media" /\ last.res = "buffered" /\ last.who = "w1"
    /\ greeting_sent["w1"]
    /\ calls.stt = 0
    /\ sess[last.sess].speaking_until = << >>
    /\ sess[last.sess].audio_buffer = 30000
    /\ sess[last.sess].silent_chunks = 1
    /\ now = MaxTime

C26_WitnessNone ==
    /\ last.op = "tts" /\ last.out /\ last.who = "w1"
    /\ stream_sid["w1"] = "MZ1"
    /\ last.arg = "None"
    /\ last.sid = "MZ1"

\* C27: when the transcription collaborator returns empty or whitespace-only
\* text, the turn ends with no reply: the dialogue and synthesis collaborators
\* are not called, the history and the transcript are not extended, no
\* outbound frame is produced, speaking_until stays unset, audio_buffer is
\* empty and is_processing is released.
C27_EmptyTranscriptionEndsTurn ==
    [][\A k \in Conns :
         (pc[k] = "stt" /\ last'.op = "stt" /\ last'.who = k /\ last'.arg = "")
         => LET s == local[k].session
            IN /\ calls' = calls
               /\ sent' = sent
               /\ timers' = timers
               /\ sess'[s].messages = sess[s].messages
               /\ sess'[s].transcription_buffer = sess[s].transcription_buffer
               /\ sess'[s].speaking_until = << >>
               /\ sess'[s].audio_buffer = 0
               /\ ~sess'[s].is_processing
               /\ pc'[k] = "recv"]_vars

\* The second turn's transcription came back empty after a first turn whose
\* synthesis gave no audio.
C27_Witness ==
    /\ last.op = "stt" /\ last.arg = "" /\ last.who = "w1"
    /\ calls.stt = 2 /\ calls.llm = 1 /\ calls.tts = 1
    /\ sent["w1"] = 0
    /\ Len(sess[last.sess].transcription_buffer) = 2
    /\ sess[last.sess].audio_buffer = 0
    /\ ~sess[last.sess].is_processing
    /\ pc["w1"] = "recv"

\* C28: retirement is idempotent per session. Under stop events,
\* disconnects, terminal status notifications and delayed-hangup firings an
\* end_call takes a session in hand only at the step that deactivates it, a
\* deactivated session is never active again, so a session's summary is
\* persisted at most once and the telephony hangup requested at most once;
\* an end_call that finds no registered session changes nothing. (The count
\* is per session: a call served by two sessions in turn can be hung up
\* once for each.)
C28_RetirementIdempotent ==
    [][/\ \A k \in Conns :
            (/\ pc'[k] \in {"stop_db", "final_db"}
             /\ pc[k] # pc'[k] \/ local[k].ending # local'[k].ending)
            => /\ sess[local'[k].ending].is_active
               /\ ~sess'[local'[k].ending].is_active
       /\ \A t \in Tasks :
            (task'[t].pc = "end_db" /\ task[t].pc # "end_db")
            => /\ sess[task'[t].session].is_active
               /\ ~sess'[task'[t].session].is_active
       /\ \A tm \in timers' \ timers :
            tm.pc = "db"
            => /\ sess[tm.victim].is_active
               /\ ~sess'[tm.victim].is_active
       /\ \A s \in Allocated :
            /\ ~sess[s].is_active => ~sess'[s].is_active
            /\ (sess[s].is_active /\ ~sess'[s].is_active)
               => Cardinality({k \in Conns : pc'[k] \in {"stop_db", "final_db"}
                                             /\ local'[k].ending = s})
                  + Cardinality({t \in Tasks : task'[t].pc = "end_db"
                                               /\ task'[t].session = s})
                  + Cardinality({tm \in timers' : tm.pc = "db" /\ tm.victim = s})
                  = 1
       /\ \A sid \in CallSids :
            hangups'[sid] # hangups[sid]
            => /\ hangups'[sid] = hangups[sid] + 1
               /\ \E tm \in timers \ timers' :
                     tm.pc = "db" /\ tm.sid = sid /\ tm.victim \in Allocated
       /\ (last'.op = "hangup" /\ last'.sess = NoSession)
          => /\ sess' = sess /\ sessions' = sessions
             /\ call_log' = call_log /\ hangups' = hangups
       /\ (last'.op = "status" /\ last'.sess = NoSession)
          => /\ sess' = sess /\ sessions' = sessions
             /\ task'[last'.who].pc = "idle" /\ hangups' = hangups
       /\ \A k \in Conns :
            (pc[k] = "recv" /\ pc'[k] = "closed")
            => /\ sess' = sess /\ sessions' = sessions
               /\ call_log' = call_log /\ hangups' = hangups]_vars

\* The delayed hangup of a call whose stream had stopped found no session and
\* changed nothing, the stream's session having been persisted by the stop.
C28_Witness ==
    /\ last.op = "hangup" /\ last.sess = NoSession /\ last.res = "stale"
    /\ pc["w1"] = "closed"
    /\ call_log["CA1"].ended
    /\ hangups["CA1"] = 0
    /\ \A s \in Allocated : ~sess[s].is_active
    /\ timers = {}

\* The delayed hangup has retired the stream's session and asked for the
\* telephony hangup; the stream's own finally clause then found nothing.
C28_WitnessHangup ==
    /\ hangups["CA1"] = 1
    /\ pc["w1"] = "closed"
    /\ call_log["CA1"].ended
    /\ Len(call_log["CA1"].transcription) = 2
    /\ \A s \in Allocated : ~sess[s].is_active
    /\ timers = {}

====
